---- MODULE Spec2Model ----
(***************************************************************************)
(* A model of torchmetrics/functional/text/infolm.py: the information      *)
(* measure (_IMEnum, _InformationMeasure), the distribution aggregation    *)
(* (_get_token_mask, _get_batch_distribution, _get_data_distribution) and  *)
(* the scoring pipeline (_infolm_compute, infolm).                         *)
(*                                                                         *)
(* Python strings that the code inspects character by character (measure   *)
(* names) are sequences of one-character strings.  Numbers are exact       *)
(* rationals <<n, d>>; a float parameter is kept as a count of halves, so  *)
(* that 0.5 and -0.5 are representable.                                    *)
(***************************************************************************)
EXTENDS Integers, Sequences, FiniteSets, TLC

VARIABLES
    pc,      \* where the modelled run stands
    args,    \* the arguments given to _InformationMeasure.__init__
    im,      \* the _InformationMeasure object: information_measure, alpha, beta
    exc,     \* the exception the last operation raised ("none" when it returned)
    call,    \* the arguments and the outcome of the last application
    batch,   \* the batch given to _get_batch_distribution
    out,     \* what _get_token_mask and _get_batch_distribution produced
    run,     \* the inputs and the outcome of _infolm_compute
    loop     \* the locals of _get_batch_distribution while its loop runs

vars == <<pc, args, im, exc, call, batch, out, run, loop>>

----------------------------------------------------------------------------
(* Bounds of the model.                                                    *)

\* the largest number of rows of a distribution batch given to the measure
MaxBatch == 3
\* the largest sequence length (tokens per sentence) of a batch
MaxSeqLen == 3
\* the largest number of sentences of a batch given to _get_batch_distribution
MaxRows == 2
\* the largest number of sentences of a corpus
MaxSentences == 3

----------------------------------------------------------------------------
(* Python values: None, float (a count of halves), int.                    *)

None == [ty |-> "None", h |-> 0]

PyFloat(h) == [ty |-> "float", h |-> h]

PyInt(n) == [ty |-> "int", h |-> 2 * n]

\* isinstance(x, float)
isinstance_float(x) == x.ty = "float"

\* x in [k1, k2, ...] for integer literals: Python compares with ==, and
\* None == 0 is False, 1.0 == 1 is True.
in_int_list(x, ks) == x.ty # "None" /\ \E k \in ks : x.h = 2 * k

\* x + y on two floats
float_add(x, y) == PyFloat(x.h + y.h)

----------------------------------------------------------------------------
(* Strings and str.lower().                                                *)

UpperLetters ==
    <<"A","B","C","D","E","F","G","H","I","J","K","L","M",
      "N","O","P","Q","R","S","T","U","V","W","X","Y","Z">>

LowerLetters ==
    <<"a","b","c","d","e","f","g","h","i","j","k","l","m",
      "n","o","p","q","r","s","t","u","v","w","x","y","z">>

\* the lower-case letter of every upper-case letter
lower_map ==
    [c \in { UpperLetters[i] : i \in DOMAIN UpperLetters } |->
        LowerLetters[CHOOSE i \in DOMAIN UpperLetters : UpperLetters[i] = c]]

lower_char(c) == IF c \in DOMAIN lower_map THEN lower_map[c] ELSE c

\* str.lower()
lower(s) == [i \in 1..Len(s) |-> lower_char(s[i])]

\* str.startswith("_")
startswith_underscore(s) == Len(s) > 0 /\ s[1] = "_"

----------------------------------------------------------------------------
(* _IMEnum: the members in the order of their definition, each with its    *)
(* attribute name and its value.                                           *)

_IMEnum ==
 << [name  |-> <<"K","L","_","D","I","V","E","R","G","E","N","C","E">>,
     value |-> "kl_divergence"],
    [name  |-> <<"A","L","P","H","A","_","D","I","V","E","R","G","E","N","C","E">>,
     value |-> "alpha_divergence"],
    [name  |-> <<"B","E","T","A","_","D","I","V","E","R","G","E","N","C","E">>,
     value |-> "beta_divergence"],
    [name  |-> <<"A","B","_","D","I","V","E","R","G","E","N","C","E">>,
     value |-> "ab_divergence"],
    [name  |-> <<"R","E","N","Y","I","_","D","I","V","E","R","G","E","N","C","E">>,
     value |-> "renyi_divergence"],
    [name  |-> <<"L","1","_","D","I","S","T","A","N","C","E">>,
     value |-> "l1_distance"],
    [name  |-> <<"L","2","_","D","I","S","T","A","N","C","E">>,
     value |-> "l2_distance"],
    [name  |-> <<"L","_","I","N","F","I","N","I","T","Y","_","D","I","S","T","A","N","C","E">>,
     value |-> "l_infinity_distance"],
    [name  |-> <<"F","I","S","H","E","R","_","R","A","O","_","D","I","S","T","A","N","C","E">>,
     value |-> "fisher_rao_distance"] >>

\* _ALLOWED_INFORMATION_MEASURE, lines 26-35: a tuple of string literals; two
\* adjacent literals with no comma between them are one string, their
\* concatenation (line 30)
_ALLOWED_INFORMATION_MEASURE ==
    <<
       <<"k","l","_","d","i","v","e","r","g","e","n","c","e">>,
       <<"a","l","p","h","a","_","d","i","v","e","r","g","e","n","c","e">>,
       <<"b","e","t","a","_","d","i","v","e","r","g","e","n","c","e">>,
       <<"a","b","_","d","i","v","e","r","g","e","n","c","e">>
           \o <<"r","e","n","y","i","_","d","i","v","e","r","g","e","n","c","e">>,
       <<"l","1","_","d","i","s","t","a","n","c","e">>,
       <<"l","2","_","d","i","s","t","a","n","c","e">>,
       <<"l","_","i","n","f","i","n","i","t","y","_","d","i","s","t","a","n","c","e">>,
       <<"f","i","s","h","e","r","_","r","a","o","_","d","i","s","t","a","n","c","e">> >>

\* dir(cls) of an Enum class: the names of the members and the four
\* attributes every Enum class lists.
dir_IMEnum ==
    { _IMEnum[i].name : i \in DOMAIN _IMEnum }
    \cup { <<"_","_","c","l","a","s","s","_","_">>,
           <<"_","_","d","o","c","_","_">>,
           <<"_","_","m","e","m","b","e","r","s","_","_">>,
           <<"_","_","m","o","d","u","l","e","_","_">> }

\* getattr(cls, st) for the name of a member: the member's value
getattr_IMEnum(st) ==
    _IMEnum[CHOOSE i \in DOMAIN _IMEnum : _IMEnum[i].name = st].value

\* [status for status in dir(cls) if not status.startswith("_")]
statuses == { st \in dir_IMEnum : ~ startswith_underscore(st) }

\* from_str comparing st.lower() with value itself
from_str_case_sensitive(value) ==
    LET hits == { st \in statuses : lower(st) = value }
    IN  IF hits # {}
        THEN [exc |-> "none",
              member |-> getattr_IMEnum(CHOOSE st \in hits : TRUE)]
        ELSE [exc |-> "ValueError: invalid information measure",
              member |-> "none"]

\* _IMEnum.from_str(value): the member whose name equals value without
\* regard to case, or ValueError.
from_str(value) ==
    LET v == lower(value)
        hits == { st \in statuses : lower(st) = v }
    IN  IF hits # {}
        THEN [exc |-> "none",
              member |-> getattr_IMEnum(CHOOSE st \in hits : TRUE)]
        ELSE [exc |-> "ValueError: invalid information measure",
              member |-> "none"]

----------------------------------------------------------------------------
(* _InformationMeasure.__init__                                            *)

NoObject == [information_measure |-> "none", alpha |-> None, beta |-> None]

\* the alpha check with the Renyi divergence left out of its list
alpha_undefined_without_renyi(m, alpha) ==
    /\ m \in {"alpha_divergence", "ab_divergence"}
    /\ ~ isinstance_float(alpha)

\* lines 115-117: alpha must be a float for alpha, AB and Renyi divergence
alpha_undefined(m, alpha) ==
    /\ m \in {"alpha_divergence", "ab_divergence", "renyi_divergence"}
    /\ ~ isinstance_float(alpha)

\* lines 118-120: beta must be a float for beta and AB divergence
beta_undefined(m, beta) ==
    /\ m \in {"beta_divergence", "ab_divergence"}
    /\ ~ isinstance_float(beta)

\* line 121: alpha in [0, 1] for alpha divergence
alpha_divergence_excluded(m, alpha) ==
    m = "alpha_divergence" /\ in_int_list(alpha, {0, 1})

\* line 123: the check made for beta divergence reads alpha, not beta
beta_divergence_excluded(m, alpha, beta) ==
    m = "beta_divergence" /\ in_int_list(alpha, {0, -1})

\* the AB check with the sum left out: 0 in [alpha, beta]
ab_divergence_excluded_without_sum(m, alpha, beta) ==
    /\ m = "ab_divergence"
    /\ \/ in_int_list(alpha, {0})
       \/ in_int_list(beta, {0})

\* line 125: 0 in [alpha, beta, alpha + beta] for AB divergence; both are
\* floats here, lines 115-120 having passed
ab_divergence_excluded(m, alpha, beta) ==
    /\ m = "ab_divergence"
    /\ \/ in_int_list(alpha, {0})
       \/ in_int_list(beta, {0})
       \/ in_int_list(float_add(alpha, beta), {0})

\* line 130: alpha == 1 for Renyi divergence
renyi_divergence_excluded(m, alpha) ==
    m = "renyi_divergence" /\ in_int_list(alpha, {1})

\* the checks of lines 114-131 in their order; "none" when all pass
init_error(information_measure, alpha, beta) ==
    LET found == from_str(information_measure)
        m == found.member
    IN
    IF found.exc # "none"
        THEN found.exc
    ELSE IF alpha_undefined(m, alpha)
        THEN "ValueError: alpha is expected to be defined"
    ELSE IF beta_undefined(m, beta)
        THEN "ValueError: beta is expected to be defined"
    ELSE IF alpha_divergence_excluded(m, alpha)
        THEN "ValueError: alpha is expected to differ from 0 and 1"
    ELSE IF beta_divergence_excluded(m, alpha, beta)
        THEN "ValueError: beta is expected to differ from 0 and -1"
    ELSE IF ab_divergence_excluded(m, alpha, beta)
        THEN "ValueError: alpha, beta and their sum are expected to differ from 0"
    ELSE IF renyi_divergence_excluded(m, alpha)
        THEN "ValueError: alpha is expected to differ from 1"
    ELSE "none"

\* the object __init__ leaves behind when it returns
init_object(information_measure, alpha, beta) ==
    [information_measure |-> from_str(information_measure).member,
     alpha |-> alpha,
     beta |-> beta]

----------------------------------------------------------------------------
(* Tensor entries: exact rationals <<n, d>> with d > 0 in lowest terms.     *)
(* d = 0 marks a non-finite entry: <<0, 0>> is nan, <<1, 0>> and <<-1, 0>>  *)
(* are the infinities.                                                     *)

RECURSIVE gcd(_, _)
gcd(a, b) == IF b = 0 THEN a ELSE gcd(b, a % b)

abs(a) == IF a < 0 THEN -a ELSE a

nan == <<0, 0>>

is_finite(a) == a[2] # 0

rat(n, d) ==
    LET g == gcd(abs(n), abs(d))
        sg == IF d < 0 THEN -1 ELSE 1
    IN  <<(sg * n) \div g, (sg * d) \div g>>

radd(a, b) ==
    LET g == gcd(a[2], b[2])
    IN  rat(a[1] * (b[2] \div g) + b[1] * (a[2] \div g), a[2] * (b[2] \div g))

rneg(a) == <<-a[1], a[2]>>

rsub(a, b) == radd(a, rneg(b))

rmul(a, b) ==
    LET g1 == gcd(abs(a[1]), b[2])
        g2 == gcd(abs(b[1]), a[2])
    IN  <<(a[1] \div g1) * (b[1] \div g2), (a[2] \div g2) * (b[2] \div g1)>>

\* a / b as floats divide: x / 0 is infinite, 0 / 0 is nan
rdiv(a, b) ==
    IF ~ is_finite(a) \/ ~ is_finite(b) THEN nan
    ELSE IF b[1] = 0
        THEN IF a[1] = 0 THEN nan ELSE IF a[1] > 0 THEN <<1, 0>> ELSE <<-1, 0>>
    ELSE rat(a[1] * b[2], a[2] * b[1])

rabs(a) == <<abs(a[1]), a[2]>>

rless(a, b) == a[1] * b[2] < b[1] * a[2]

rmax(a, b) == IF rless(a, b) THEN b ELSE a

RECURSIVE rpow(_, _)
\* a ** e for an integer e and a > 0
rpow(a, e) ==
    IF e = 0 THEN <<1, 1>>
    ELSE IF e > 0 THEN rmul(a, rpow(a, e - 1))
    ELSE rpow(<<a[2], a[1]>>, -e)

RECURSIVE isqrt_between(_, _, _)
\* the largest k in lo..hi with k * k <= n, by bisection
isqrt_between(n, lo, hi) ==
    IF lo >= hi THEN lo
    ELSE LET mid == (lo + hi + 1) \div 2
         IN  IF mid * mid <= n THEN isqrt_between(n, mid, hi)
             ELSE isqrt_between(n, lo, mid - 1)

\* the integer part of the square root (46340 * 46340 is the largest square
\* a 32-bit integer holds)
isqrt(n) == isqrt_between(n, 0, IF n < 46340 THEN n ELSE 46340)

is_square(a) ==
    /\ isqrt(a[1]) * isqrt(a[1]) = a[1]
    /\ isqrt(a[2]) * isqrt(a[2]) = a[2]

\* the root of the square of a rational (no value for any other number)
rsqrt(a) ==
    << CHOOSE k \in {isqrt(a[1])} : k * k = a[1],
       CHOOSE k \in {isqrt(a[2])} : k * k = a[2] >>

\* a ** (h / 2) for a > 0; an odd h needs a to be the square of a rational
pow_halves(a, h) ==
    IF h % 2 = 0 THEN rpow(a, h \div 2) ELSE rpow(rsqrt(a), h)

\* the float a parameter holds, as a rational
as_rat(x) == rat(x.h, 2)

RECURSIVE rsum(_)
\* torch.sum over the last axis
rsum(xs) == IF xs = <<>> THEN <<0, 1>> ELSE radd(Head(xs), rsum(Tail(xs)))

RECURSIVE rmaximum(_)
rmaximum(xs) ==
    IF xs = <<>> THEN <<0, 1>> ELSE rmax(Head(xs), rmaximum(Tail(xs)))

row_finite(p) == \A v \in DOMAIN p : is_finite(p[v])

----------------------------------------------------------------------------
(* Results of a measure.  A result is [k, v]: a rational (k = "rat", with  *)
(* nan for every non-finite result), a sum of c * log(x) terms kept as the *)
(* function x |-> c (k = "log"), sqrt(v) (k = "sqrt") or 2 * acos(v)       *)
(* (k = "2acos").  Zero is always the rational 0.                          *)

Rat(a) == [k |-> "rat", v |-> a]

NonFinite == Rat(nan)

Zero == Rat(<<0, 1>>)

ll_empty == [x \in {} |-> <<0, 1>>]

\* c * log(x), x > 0
ll_term(c, x) == IF c[1] = 0 \/ x = <<1, 1>> THEN ll_empty ELSE [a \in {x} |-> c]

ll_add(f, g) ==
    LET coef(a) == radd(IF a \in DOMAIN f THEN f[a] ELSE <<0, 1>>,
                        IF a \in DOMAIN g THEN g[a] ELSE <<0, 1>>)
    IN  [a \in { b \in DOMAIN f \cup DOMAIN g : coef(b)[1] # 0 } |-> coef(a)]

RECURSIVE ll_sum(_)
ll_sum(fs) == IF fs = <<>> THEN ll_empty ELSE ll_add(Head(fs), ll_sum(Tail(fs)))

Log(f) == IF DOMAIN f = {} THEN Zero ELSE [k |-> "log", v |-> f]

\* torch.sqrt / the 2-norm's root
Sqrt(a) ==
    IF a[1] = 0 THEN Zero
    ELSE IF is_square(a) THEN Rat(rsqrt(a))
    ELSE [k |-> "sqrt", v |-> a]

\* 2 * torch.acos(c) for 0 <= c <= 1
TwoAcos(c) == IF c = <<1, 1>> THEN Zero ELSE [k |-> "2acos", v |-> c]

\* 2 * torch.acos(torch.clamp(sum of the roots of xs, 0, 1)) when some root
\* is irrational: kept with the numbers under the roots
TwoAcosOfRoots(xs) == [k |-> "2acos of the sum of roots", v |-> xs]

\* torch.clamp(c, 0, 1)
clamp01(c) ==
    IF rless(c, <<0, 1>>) THEN <<0, 1>>
    ELSE IF rless(<<1, 1>>, c) THEN <<1, 1>> ELSE c

----------------------------------------------------------------------------
(* The nine measures on one row of each batch (the sum over the vocabulary *)
(* axis, dim=-1).  p is the row of preds_distribution, q the row of        *)
(* target_distribution; a row with a non-finite entry gives a non-finite   *)
(* result.                                                                 *)

\* torch.sum(p * torch.log(p / q), dim=-1)
kl_divergence_row(p, q) ==
    IF ~ row_finite(p) \/ ~ row_finite(q) THEN NonFinite
    ELSE Log(ll_sum([v \in DOMAIN p |-> ll_term(p[v], rdiv(p[v], q[v]))]))

\* torch.sum(q ** a * p ** b, dim=-1) for a = ha / 2 and b = hb / 2
power_sum(q, ha, p, hb) ==
    rsum([v \in DOMAIN p |-> rmul(pow_halves(q[v], ha), pow_halves(p[v], hb))])

\* (1 - sum(q ** alpha * p ** (1 - alpha))) / (alpha * (alpha - 1))
alpha_divergence_row(alpha, p, q) ==
    LET _alpha_denom == rmul(as_rat(alpha), rsub(as_rat(alpha), <<1, 1>>))
    IN  IF ~ row_finite(p) \/ ~ row_finite(q) THEN NonFinite
        ELSE Rat(rdiv(rsub(<<1, 1>>, power_sum(q, alpha.h, p, 2 - alpha.h)),
                      _alpha_denom))

\* lines 186-191: x, y, z are the logarithms of three sums, and
\* x / (beta * (beta + alpha)) + y / (beta + alpha) - z / (alpha * beta);
\* a division by 0.0 makes the result non-finite
ab_divergence_row(alpha, beta, p, q) ==
    LET a == as_rat(alpha)
        b == as_rat(beta)
        x == power_sum(q, beta.h + alpha.h, p, 0)
        y == power_sum(q, 0, p, beta.h + alpha.h)
        z == power_sum(q, alpha.h, p, beta.h)
        dx == rmul(b, radd(b, a))
        dy == radd(b, a)
        dz == rmul(a, b)
    IN  IF ~ row_finite(p) \/ ~ row_finite(q) THEN NonFinite
        ELSE IF dx[1] = 0 \/ dy[1] = 0 \/ dz[1] = 0 THEN NonFinite
        ELSE Log(ll_sum(<< ll_term(rdiv(<<1, 1>>, dx), x),
                           ll_term(rdiv(<<1, 1>>, dy), y),
                           ll_term(rneg(rdiv(<<1, 1>>, dz)), z) >>))

\* torch.log(sum(q ** alpha * p ** (1 - alpha))) / (alpha - 1)
renyi_divergence_row(alpha, p, q) ==
    LET d == rsub(as_rat(alpha), <<1, 1>>)
    IN  IF ~ row_finite(p) \/ ~ row_finite(q) \/ d[1] = 0 THEN NonFinite
        ELSE Log(ll_term(rdiv(<<1, 1>>, d),
                         power_sum(q, alpha.h, p, 2 - alpha.h)))

\* torch.norm(q - p, p=1, dim=-1)
l1_distance_row(p, q) ==
    IF ~ row_finite(p) \/ ~ row_finite(q) THEN NonFinite
    ELSE Rat(rsum([v \in DOMAIN p |-> rabs(rsub(q[v], p[v]))]))

\* torch.norm(q - p, p=2, dim=-1)
l2_distance_row(p, q) ==
    IF ~ row_finite(p) \/ ~ row_finite(q) THEN NonFinite
    ELSE Sqrt(rsum([v \in DOMAIN p |->
                      rmul(rsub(q[v], p[v]), rsub(q[v], p[v]))]))

\* the largest entry of q - p, without the absolute value of the norm
l_infinity_distance_row_signed(p, q) ==
    IF ~ row_finite(p) \/ ~ row_finite(q) THEN NonFinite
    ELSE Rat(rmaximum([v \in DOMAIN p |-> rsub(q[v], p[v])]))

\* torch.norm(q - p, p=float("inf"), dim=-1)
l_infinity_distance_row(p, q) ==
    IF ~ row_finite(p) \/ ~ row_finite(q) THEN NonFinite
    ELSE Rat(rmaximum([v \in DOMAIN p |-> rabs(rsub(q[v], p[v]))]))

\* 2 * torch.acos(torch.clamp(torch.sqrt(p * q).sum(-1), 0, 1))
fisher_rao_distance_row(p, q) ==
    IF ~ row_finite(p) \/ ~ row_finite(q) THEN NonFinite
    ELSE IF \A v \in DOMAIN p : is_square(rmul(p[v], q[v]))
        THEN TwoAcos(clamp01(rsum([v \in DOMAIN p |-> rsqrt(rmul(p[v], q[v]))])))
    ELSE TwoAcosOfRoots([v \in DOMAIN p |-> rmul(p[v], q[v])])

----------------------------------------------------------------------------
(* The measures on two batches [m, vocab] and [n, vocab].  Every measure    *)
(* first combines the two tensors entry by entry (p / q, q ** a * p ** b,  *)
(* q - p, p * q), which torch broadcasts over the batch axis: sizes m and n *)
(* combine when they are equal or one of them is 1, and raise otherwise.   *)

\* the batch size of the combined tensor, -1 when the sizes do not combine
\* (a version that also refuses a batch of size 1 against another size)
broadcast_size_strict(m, n) == IF m = n THEN m ELSE -1

\* the batch size of the combined tensor, -1 when the sizes do not combine
broadcast_size(m, n) ==
    IF m = n THEN m
    ELSE IF m = 1 THEN n
    ELSE IF n = 1 THEN m
    ELSE -1

\* the row of a batch of size m that is combined into row i of the result
broadcast_row(P, i) == IF Len(P) = 1 THEN P[1] ELSE P[i]

\* a measure applied row by row to the combined batches
combine(preds, target, row_measure(_, _)) ==
    LET size == broadcast_size(Len(preds), Len(target))
    IN  IF size = -1
        THEN [exc |-> "RuntimeError: the size of tensor a must match the size of tensor b",
              value |-> <<>>]
        ELSE [exc |-> "none",
              value |-> [i \in 1..size |->
                  row_measure(broadcast_row(preds, i), broadcast_row(target, i))]]

TypeError == [exc |-> "TypeError: unsupported operand type(s)", value |-> <<>>]

_calculate_kl_divergence(preds, target) ==
    combine(preds, target, kl_divergence_row)

_calculate_alpha_divergence(self, preds, target) ==
    IF ~ isinstance_float(self.alpha) THEN TypeError
    ELSE combine(preds, target,
                 LAMBDA p, q : alpha_divergence_row(self.alpha, p, q))

_calculate_ab_divergence(self, preds, target) ==
    IF ~ isinstance_float(self.alpha) \/ ~ isinstance_float(self.beta)
    THEN TypeError
    ELSE combine(preds, target,
                 LAMBDA p, q : ab_divergence_row(self.alpha, self.beta, p, q))

_calculate_renyi_divergence(self, preds, target) ==
    IF ~ isinstance_float(self.alpha) THEN TypeError
    ELSE combine(preds, target,
                 LAMBDA p, q : renyi_divergence_row(self.alpha, p, q))

_calculate_l1_distance(preds, target) ==
    combine(preds, target, l1_distance_row)

_calculate_l2_distance(preds, target) ==
    combine(preds, target, l2_distance_row)

_calculate_l_infinity_distance(preds, target) ==
    combine(preds, target, l_infinity_distance_row)

_calculate_fisher_rao_distance(preds, target) ==
    combine(preds, target, fisher_rao_distance_row)

\* line 206: self.alpha = 1.0
beta_divergence_self(self) == [self EXCEPT !.alpha = PyFloat(2)]

\* _calculate_beta_divergence without line 206: the AB divergence with the
\* alpha the object holds
_calculate_beta_divergence_keeps_alpha(self, preds, target) ==
    _calculate_ab_divergence(self, preds, target)

\* lines 206-208: the AB divergence of the object with alpha set to 1.0
_calculate_beta_divergence(self, preds, target) ==
    _calculate_ab_divergence(beta_divergence_self(self), preds, target)

\* the object after a __call__ that assigns no field
self_after_call_unchanged(self) == self

\* the object after __call__: only _calculate_beta_divergence assigns a field
self_after_call(self) ==
    IF self.information_measure = "beta_divergence"
    THEN beta_divergence_self(self)
    ELSE self

\* _InformationMeasure.__call__: getattr(self, f"_calculate_{...}") names the
\* method of the object's kind, which is then applied
__call__(self, preds, target) ==
    CASE self.information_measure = "kl_divergence" ->
            _calculate_kl_divergence(preds, target)
      [] self.information_measure = "alpha_divergence" ->
            _calculate_alpha_divergence(self, preds, target)
      [] self.information_measure = "beta_divergence" ->
            _calculate_beta_divergence(self, preds, target)
      [] self.information_measure = "ab_divergence" ->
            _calculate_ab_divergence(self, preds, target)
      [] self.information_measure = "renyi_divergence" ->
            _calculate_renyi_divergence(self, preds, target)
      [] self.information_measure = "l1_distance" ->
            _calculate_l1_distance(preds, target)
      [] self.information_measure = "l2_distance" ->
            _calculate_l2_distance(preds, target)
      [] self.information_measure = "l_infinity_distance" ->
            _calculate_l_infinity_distance(preds, target)
      [] self.information_measure = "fisher_rao_distance" ->
            _calculate_fisher_rao_distance(preds, target)

----------------------------------------------------------------------------
(* Token ids, the masked language model and the distribution of a batch.   *)

\* _get_special_tokens_map(tokenizer): the ids of the tokenizer's special
\* tokens; the ids 4 and 5 are the content tokens
special_tokens_map ==
    [mask_token_id |-> 3, pad_token_id |-> 0, sep_token_id |-> 2,
     cls_token_id |-> 1]

\* the distributions the language model's softmax yields, over the six token
\* ids 0..5
SoftmaxOutputs ==
    << << rat(1, 12), rat(1, 12), rat(1, 12), rat(1, 12), rat(4, 12), rat(4, 12) >>,
       << rat(1, 12), rat(1, 12), rat(1, 12), rat(1, 12), rat(2, 12), rat(6, 12) >>,
       << rat(2, 12), rat(2, 12), rat(2, 12), rat(2, 12), rat(2, 12), rat(2, 12) >>,
       << rat(1, 12), rat(2, 12), rat(3, 12), rat(1, 12), rat(3, 12), rat(2, 12) >>,
       << rat(1, 12), rat(1, 12), rat(2, 12), rat(2, 12), rat(1, 12), rat(5, 12) >> >>

RECURSIVE weighted_sum_upto(_, _, _)
weighted_sum_upto(xs, j, n) ==
    IF n = 0 THEN 0 ELSE (j + n - 1) * xs[n] + weighted_sum_upto(xs, j, n - 1)

\* j * xs[1] + (j + 1) * xs[2] + ...
weighted_sum(xs, j) == weighted_sum_upto(xs, j, Len(xs))

\* F.softmax(model(input_ids, attention_mask).logits / temperature, dim=-1)
\* for one row: a distribution for every position, which depends on the
\* tokens the model is shown, on the attention mask and on the position
model_softmax(input_ids_row, attention_mask_row) ==
    [s \in DOMAIN input_ids_row |->
        SoftmaxOutputs[((weighted_sum(input_ids_row, 1)
                         + weighted_sum(attention_mask_row, 2) + s)
                        % Len(SoftmaxOutputs)) + 1]]

\* line 348: input_ids.eq(pad) | input_ids.eq(sep) | input_ids.eq(cls)
_get_token_mask(input_ids, pad_token_id, sep_token_id, cls_token_id) ==
    [r \in DOMAIN input_ids |->
        [s \in DOMAIN input_ids[r] |->
            \/ input_ids[r][s] = pad_token_id
            \/ input_ids[r][s] = sep_token_id
            \/ input_ids[r][s] = cls_token_id]]

\* lines 383-384: the clone of input_ids with column mask_idx set to the
\* mask token id
masked_input_ids(input_ids, mask_idx, mask_token_id) ==
    [r \in DOMAIN input_ids |->
        [s \in DOMAIN input_ids[r] |->
            IF s = mask_idx THEN mask_token_id ELSE input_ids[r][s]]]

\* lines 386-391: the distribution of every row at the masked position
prob_distribution(batch_, mask_idx, mask_token_id) ==
    LET input_ids == masked_input_ids(batch_.input_ids, mask_idx, mask_token_id)
    IN  [r \in DOMAIN input_ids |->
            model_softmax(input_ids[r], batch_.attention_mask[r])[mask_idx]]

\* token_mask.sum(dim=1)
mask_count(token_mask_row) ==
    Cardinality({ s \in DOMAIN token_mask_row : token_mask_row[s] })

\* line 397 dividing every row by the number of true entries of the whole mask
mean_over_batch_count(summed, token_mask) ==
    LET RECURSIVE total(_)
        total(r) == IF r = 0 THEN 0 ELSE mask_count(token_mask[r]) + total(r - 1)
    IN  [r \in DOMAIN summed |->
            [v \in DOMAIN summed[r] |->
                rdiv(summed[r][v], <<total(Len(token_mask)), 1>>)]]

\* line 397: prob_distribution_batch.sum(dim=1) / token_mask.sum(dim=1).unsqueeze(1)
mean_over_row_count(summed, token_mask) ==
    [r \in DOMAIN summed |->
        [v \in DOMAIN summed[r] |->
            rdiv(summed[r][v], <<mask_count(token_mask[r]), 1>>)]]

\* _get_batch_distribution(model, batch, temperature, idf, special_tokens_map):
\* the token mask, the input of every invocation of the model, and the
\* distribution of every sentence
_get_batch_distribution(batch_, tokens) ==
    LET seq_len == Len(batch_.input_ids[1])
        token_mask == _get_token_mask(batch_.input_ids, tokens.pad_token_id,
                          tokens.sep_token_id, tokens.cls_token_id)
        \* lines 382-395: [batch_size, seq_len, vocab_size]
        prob_distribution_batch ==
            LET per_idx == [mask_idx \in 1..seq_len |->
                              prob_distribution(batch_, mask_idx, tokens.mask_token_id)]
            IN  [r \in DOMAIN batch_.input_ids |->
                    [s \in 1..seq_len |-> per_idx[s][r]]]
        \* line 396: einsum("bsv, bs -> bsv") and the sum over dim=1
        summed ==
            [r \in DOMAIN batch_.input_ids |->
                [v \in DOMAIN SoftmaxOutputs[1] |->
                    rsum([s \in 1..seq_len |->
                            IF token_mask[r][s]
                            THEN prob_distribution_batch[r][s][v]
                            ELSE <<0, 1>>])]]
    IN  [token_mask |-> token_mask,
         model_inputs |-> [mask_idx \in 1..seq_len |->
             masked_input_ids(batch_.input_ids, mask_idx, tokens.mask_token_id)],
         distribution |-> mean_over_row_count(summed, token_mask)]

\* one pass of the loop of lines 382-393 that writes the mask token into
\* batch["input_ids"] itself, without the clone of line 383
loop_body_without_clone(batch_, mask_idx, tokens) ==
    LET input_ids == masked_input_ids(batch_.input_ids, mask_idx + 1,
                                      tokens.mask_token_id)
    IN  [batch |-> [input_ids |-> input_ids,
                    attention_mask |-> batch_.attention_mask],
         invocation |-> [input_ids |-> input_ids,
                         attention_mask |-> batch_.attention_mask],
         prob_distribution |->
            [r \in DOMAIN input_ids |->
                model_softmax(input_ids[r], batch_.attention_mask[r])[mask_idx + 1]]]

\* one pass of the loop of lines 382-393 for mask_idx of range(seq_len): the
\* batch as the pass leaves it, what the model is invoked with, and the
\* distribution the pass appends (logits_distribution[:, mask_idx, :])
loop_body(batch_, mask_idx, tokens) ==
    LET \* lines 383-384: a clone, with column mask_idx masked
        input_ids == masked_input_ids(batch_.input_ids, mask_idx + 1,
                                      tokens.mask_token_id)
    IN  [batch |-> batch_,
         invocation |-> [input_ids |-> input_ids,
                         attention_mask |-> batch_.attention_mask],
         prob_distribution |->
            [r \in DOMAIN input_ids |->
                model_softmax(input_ids[r], batch_.attention_mask[r])[mask_idx + 1]]]

\* lines 395-397: torch.cat along dim=1 of what the passes appended (one
\* entry per pass, one row per sentence), the einsum with the token mask,
\* the sum over dim=1 and the division by token_mask.sum(dim=1)
loop_result(appended, token_mask) ==
    LET summed ==
            [r \in DOMAIN token_mask |->
                [v \in DOMAIN SoftmaxOutputs[1] |->
                    rsum([s \in DOMAIN appended |->
                            IF token_mask[r][s] THEN appended[s][r][v]
                            ELSE <<0, 1>>])]]
    IN  mean_over_row_count(summed, token_mask)

----------------------------------------------------------------------------
(* Tokenization, the dataloader and the distribution of a corpus.          *)

\* the first n elements of a sequence, all of it when it is shorter
take(xs, n) == SubSeq(xs, 1, IF Len(xs) < n THEN Len(xs) ELSE n)

\* tokenizer(sentence, padding="max_length", max_length=max_length,
\* truncation=True): cls, the content cut to max_length - 2 tokens, sep, and
\* padding up to max_length; the attention mask is 1 at what is no padding
tokenizer(sentence, max_length) ==
    LET content == take(sentence, max_length - 2)
        tokens == <<special_tokens_map.cls_token_id>> \o content
                      \o <<special_tokens_map.sep_token_id>>
    IN  [input_ids |->
            [s \in 1..max_length |->
                IF s <= Len(tokens) THEN tokens[s]
                ELSE special_tokens_map.pad_token_id],
         attention_mask |->
            [s \in 1..max_length |-> IF s <= Len(tokens) THEN 1 ELSE 0]]

\* _infolm_update for one corpus: input_ids and attention_mask, one row for
\* every sentence
_infolm_update(corpus, max_length) ==
    [input_ids |-> [i \in DOMAIN corpus |-> tokenizer(corpus[i], max_length).input_ids],
     attention_mask |->
        [i \in DOMAIN corpus |-> tokenizer(corpus[i], max_length).attention_mask]]

\* _get_dataloader: the rows in their order, in batches of batch_size rows,
\* the last batch holding what is left
_get_dataloader(input, batch_size) ==
    LET n == Len(input.input_ids)
        count == (n + batch_size - 1) \div batch_size
        last(b) == IF b * batch_size < n THEN b * batch_size ELSE n
    IN  [b \in 1..count |->
            [input_ids |-> SubSeq(input.input_ids, (b - 1) * batch_size + 1, last(b)),
             attention_mask |->
                SubSeq(input.attention_mask, (b - 1) * batch_size + 1, last(b))]]

\* _input_data_collator(batch, device): the batch, on the model's device
_input_data_collator(batch_) == batch_

RECURSIVE _get_data_distribution_reversed(_, _)
\* _get_data_distribution putting every batch's result before the earlier
\* ones
_get_data_distribution_reversed(dataloader, tokens) ==
    IF dataloader = <<>> THEN <<>>
    ELSE _get_data_distribution_reversed(Tail(dataloader), tokens)
         \o _get_batch_distribution(_input_data_collator(Head(dataloader)),
                                    tokens).distribution

RECURSIVE _get_data_distribution(_, _)
\* lines 430-436: the distributions of the batches, appended in the order of
\* the dataloader and concatenated along dim=0
_get_data_distribution(dataloader, tokens) ==
    IF dataloader = <<>> THEN <<>>
    ELSE _get_batch_distribution(_input_data_collator(Head(dataloader)),
                                 tokens).distribution
         \o _get_data_distribution(Tail(dataloader), tokens)

\* _infolm_compute: the measure applied to the distributions of the two
\* corpora
_infolm_compute(self, preds_dataloader, target_dataloader, tokens) ==
    __call__(self,
             _get_data_distribution(preds_dataloader, tokens),
             _get_data_distribution(target_dataloader, tokens))

----------------------------------------------------------------------------
(* Constructing a measure: infolm line 590, or a direct construction.       *)

NoCall == [preds |-> <<>>, target |-> <<>>, alpha_before |-> None,
           result |-> <<>>]

NoBatch == [input_ids |-> <<>>, attention_mask |-> <<>>]

NoOut == [token_mask |-> <<>>, model_inputs |-> <<>>, distribution |-> <<>>]

NoRun == [preds |-> <<>>, target |-> <<>>, max_length |-> 0, batch_size |-> 0,
          score |-> <<>>]

NoLoop == [given |-> <<>>, seq_len |-> 0, mask_idx |-> 0, token_mask |-> <<>>,
           invocations |-> <<>>, prob_distribution_batch |-> <<>>]

NoArgs == [information_measure |-> <<>>, alpha |-> None, beta |-> None]

Init ==
    /\ pc = "start"
    /\ args = NoArgs
    /\ im = NoObject
    /\ exc = "none"
    /\ call = NoCall
    /\ batch = NoBatch
    /\ out = NoOut
    /\ run = NoRun
    /\ loop = NoLoop

\* _InformationMeasure(information_measure, alpha, beta)
Construct(information_measure, alpha, beta) ==
    /\ pc = "start"
    /\ args' = [information_measure |-> information_measure,
                alpha |-> alpha, beta |-> beta]
    /\ LET e == init_error(information_measure, alpha, beta) IN
       /\ exc' = e
       /\ IF e = "none"
          THEN /\ im' = init_object(information_measure, alpha, beta)
               /\ pc' = "constructed"
          ELSE /\ im' = NoObject
               /\ pc' = "failed"
    /\ UNCHANGED <<call, batch, out, run, loop>>

\* the measure names tried: the nine names in lower case and capitalised,
\* the member names, and strings that are no measure name
NameInputs ==
    { lower(_IMEnum[i].name) : i \in DOMAIN _IMEnum }
    \cup { _IMEnum[i].name : i \in DOMAIN _IMEnum }
    \cup { [j \in 1..Len(_IMEnum[i].name) |->
              IF j = 1 THEN _IMEnum[i].name[j]
              ELSE lower_char(_IMEnum[i].name[j])] : i \in DOMAIN _IMEnum }
    \cup { <<>>,
           <<"k","l">>,
           <<"k","l","-","d","i","v","e","r","g","e","n","c","e">>,
           <<"k","l","_","d","i","v","e","r","g","e","n","c","e"," ">>,
           <<"a","b","_","d","i","v","e","r","g","e","n","c","e",
             "r","e","n","y","i","_","d","i","v","e","r","g","e","n","c","e">>,
           <<"_","_","d","o","c","_","_">>,
           <<"l","3","_","d","i","s","t","a","n","c","e">> }

\* the parameter values tried: not given, ints, and floats -1.0 .. 2.0
ParamInputs ==
    {None, PyInt(0), PyInt(2)} \cup { PyFloat(h) : h \in {-2, -1, 0, 1, 2, 3, 4} }

ConstructAny ==
    /\ pc = "start"
    /\ \E n \in NameInputs, a \in ParamInputs, b \in ParamInputs : Construct(n, a, b)

NextConstruct == ConstructAny

SpecConstruct == Init /\ [][NextConstruct]_vars

----------------------------------------------------------------------------
(* Properties of the construction.                                         *)

\* the nine recognized measure names, in lower case
NineNames ==
    { <<"k","l","_","d","i","v","e","r","g","e","n","c","e">>,
      <<"a","l","p","h","a","_","d","i","v","e","r","g","e","n","c","e">>,
      <<"b","e","t","a","_","d","i","v","e","r","g","e","n","c","e">>,
      <<"a","b","_","d","i","v","e","r","g","e","n","c","e">>,
      <<"r","e","n","y","i","_","d","i","v","e","r","g","e","n","c","e">>,
      <<"l","1","_","d","i","s","t","a","n","c","e">>,
      <<"l","2","_","d","i","s","t","a","n","c","e">>,
      <<"l","_","i","n","f","i","n","i","t","y","_","d","i","s","t","a","n","c","e">>,
      <<"f","i","s","h","e","r","_","r","a","o","_","d","i","s","t","a","n","c","e">> }

\* the errors the construction raises for its parameters
ParameterErrors ==
    { "ValueError: alpha is expected to be defined",
      "ValueError: beta is expected to be defined",
      "ValueError: alpha is expected to differ from 0 and 1",
      "ValueError: beta is expected to differ from 0 and -1",
      "ValueError: alpha, beta and their sum are expected to differ from 0",
      "ValueError: alpha is expected to differ from 1" }

Attempted == pc \in {"constructed", "failed"}

\* the construction was asked for measure kind k (under any casing)
Asked(k) ==
    \E i \in DOMAIN _IMEnum :
        /\ _IMEnum[i].value = k
        /\ lower(args.information_measure) = lower(_IMEnum[i].name)

RejectedForParameters ==
    pc = "failed" /\ im = NoObject /\ exc \in ParameterErrors

Accepted ==
    /\ pc = "constructed"
    /\ exc = "none"
    /\ Asked(im.information_measure)
    /\ im.alpha = args.alpha
    /\ im.beta = args.beta

\* C1 (as claimed): a beta_divergence construction with beta equal to 0 or
\* to -1 fails with a ValueError whatever alpha is, alpha not given
\* included, and leaves no object.
C1_BetaDivergenceRejectsExcludedBeta ==
    (Attempted /\ Asked("beta_divergence") /\ in_int_list(args.beta, {0, -1}))
        => RejectedForParameters

\* C3: a construction accepts the measure name if and only if the name, in
\* lower case, is one of the nine recognized names; any other name fails with
\* the unrecognized-measure ValueError and leaves no object.
C3_NameAcceptedIffRecognized ==
    Attempted =>
        /\ (exc = "ValueError: invalid information measure")
              <=> (lower(args.information_measure) \notin NineNames)
        /\ (lower(args.information_measure) \notin NineNames)
              => (pc = "failed" /\ im = NoObject)
        /\ (pc = "constructed") => Asked(im.information_measure)

C3_Witness ==
    /\ pc = "constructed"
    /\ args.information_measure # lower(args.information_measure)
    /\ im.information_measure = "l_infinity_distance"

\* C4: the construction fails with a ValueError when alpha is None for
\* alpha, AB or Renyi divergence, or beta is None for beta or AB divergence;
\* for the five kinds without parameters it succeeds with alpha = None and
\* beta = None.
C4_RequiredParameters ==
    Attempted =>
        /\ ((Asked("alpha_divergence") \/ Asked("ab_divergence")
                \/ Asked("renyi_divergence")) /\ args.alpha = None)
              => RejectedForParameters
        /\ ((Asked("beta_divergence") \/ Asked("ab_divergence"))
                /\ args.beta = None)
              => RejectedForParameters
        /\ ((Asked("kl_divergence") \/ Asked("l1_distance")
                \/ Asked("l2_distance") \/ Asked("l_infinity_distance")
                \/ Asked("fisher_rao_distance"))
                /\ args.alpha = None /\ args.beta = None)
              => Accepted

C4_Witness ==
    /\ pc = "failed"
    /\ Asked("renyi_divergence")
    /\ args.alpha = None
    /\ exc = "ValueError: alpha is expected to be defined"

\* C5: the construction fails with a ValueError when alpha is 0 or 1 for
\* alpha divergence, alpha is 1 for Renyi divergence, or one of alpha, beta,
\* alpha + beta is 0 for AB divergence; for every other float alpha (and
\* beta, for AB divergence) of these kinds it succeeds and stores alpha and
\* beta as given.
C5_ExcludedValues ==
    Attempted =>
        /\ Asked("alpha_divergence") =>
              /\ in_int_list(args.alpha, {0, 1}) => RejectedForParameters
              /\ (isinstance_float(args.alpha)
                    /\ ~ in_int_list(args.alpha, {0, 1})) => Accepted
        /\ Asked("renyi_divergence") =>
              /\ in_int_list(args.alpha, {1}) => RejectedForParameters
              /\ (isinstance_float(args.alpha)
                    /\ ~ in_int_list(args.alpha, {1})) => Accepted
        /\ (Asked("ab_divergence") /\ isinstance_float(args.alpha)
                /\ isinstance_float(args.beta)) =>
              IF args.alpha.h = 0 \/ args.beta.h = 0
                    \/ args.alpha.h + args.beta.h = 0
              THEN RejectedForParameters
              ELSE Accepted
        /\ (Asked("ab_divergence")
                /\ (in_int_list(args.alpha, {0}) \/ in_int_list(args.beta, {0})))
              => RejectedForParameters

C5_Witness ==
    /\ pc = "failed"
    /\ Asked("ab_divergence")
    /\ args.alpha = PyFloat(1)
    /\ args.beta = PyFloat(-1)
    /\ exc = "ValueError: alpha, beta and their sum are expected to differ from 0"

\* the names the unrecognized-measure error message and the Literal type
\* name as allowed
Advertised ==
    { _ALLOWED_INFORMATION_MEASURE[i] : i \in DOMAIN _ALLOWED_INFORMATION_MEASURE }

\* the construction got past from_str: it failed, if at all, for alpha or beta
NameAccepted == Attempted /\ exc # "ValueError: invalid information measure"

\* C14: the advertised names are exactly the names the construction accepts:
\* every advertised name is accepted by from_str, and every accepted name is,
\* in lower case, advertised.
C14_AdvertisedNamesAreTheAcceptedNames ==
    Attempted =>
        /\ (args.information_measure \in Advertised) => NameAccepted
        /\ NameAccepted => (lower(args.information_measure) \in Advertised)

----------------------------------------------------------------------------
(* Applying a measure to two distribution batches.                         *)

\* distributions over a vocabulary of three tokens whose entries are squares
\* of rationals, so that every half-integer power is a rational
Distributions ==
    << << <<1, 9>>, <<4, 9>>, <<4, 9>> >>,
       << <<4, 9>>, <<1, 9>>, <<4, 9>> >>,
       << <<4, 49>>, <<9, 49>>, <<36, 49>> >> >>

\* the batch of n rows that starts at the s-th distribution
batch_of(n, s) ==
    [i \in 1..n |-> Distributions[((s + i - 2) % Len(Distributions)) + 1]]

\* the batches tried: one to MaxBatch rows (torch.cat of line 436 returns no
\* empty batch)
DistributionBatches == { batch_of(n, s) : n \in 1..MaxBatch, s \in 1..2 }

\* information_measure_cls(preds_distribution, target_distribution)
Call(preds, target) ==
    /\ pc \in {"constructed", "called"}
    /\ \E r \in {__call__(im, preds, target)} :
       /\ call' = [preds |-> preds, target |-> target,
                   alpha_before |-> im.alpha, result |-> r.value]
       /\ exc' = r.exc
    /\ im' = self_after_call(im)
    /\ pc' = "called"
    /\ UNCHANGED <<args, batch, out, run, loop>>

\* the constructions whose objects are then applied: every kind with the
\* parameters it reads, and some with parameters they do not read
MeasureNames == { lower(_IMEnum[i].name) : i \in DOMAIN _IMEnum }

MeasureAlphas == {None, PyFloat(1), PyFloat(4)}

MeasureBetas == {None, PyFloat(-2), PyFloat(-1), PyFloat(0), PyFloat(2)}

MeasureArgs ==
    { t \in MeasureNames \X MeasureAlphas \X MeasureBetas :
        LET m == from_str(t[1]).member IN
        \/ m \in {"beta_divergence", "ab_divergence"}
        \/ m \in {"alpha_divergence", "renyi_divergence"} /\ t[3] = None
        \/ m \in {"alpha_divergence", "kl_divergence"}
              /\ <<t[2], t[3]>> = <<PyFloat(4), PyFloat(2)>>
        \/ <<t[2], t[3]>> = <<None, None>> }

ConstructMeasure ==
    /\ pc = "start"
    /\ \E t \in MeasureArgs : Construct(t[1], t[2], t[3])

CallAny ==
    /\ pc \in {"constructed", "called"}
    /\ \E P \in DistributionBatches, Q \in DistributionBatches : Call(P, Q)

NextMeasure == ConstructMeasure \/ CallAny

SpecMeasure == Init /\ [][NextMeasure]_vars

----------------------------------------------------------------------------
(* Properties of the application of a measure.                             *)

SizeMismatch ==
    exc = "RuntimeError: the size of tensor a must match the size of tensor b"

\* C6 (as claimed): applying a measure to batches of sizes m # n always
\* fails with a dimension-mismatch error and returns no scores, a batch of
\* size 1 included.
C6_MismatchAlwaysFails ==
    (pc = "called" /\ Len(call.preds) # Len(call.target))
        => (SizeMismatch /\ call.result = <<>>)

\* C6 (amended): applying a measure to batches of sizes m # n fails with a
\* dimension-mismatch error and returns no scores when neither m nor n is 1;
\* when one of them is 1 the call returns as many scores as the other batch
\* has rows, each computed against the single row.
C6_MismatchFailsUnlessBroadcast ==
    (pc = "called" /\ Len(call.preds) # Len(call.target)) =>
        IF Len(call.preds) # 1 /\ Len(call.target) # 1
        THEN SizeMismatch /\ call.result = <<>>
        ELSE /\ exc = "none"
             /\ Len(call.result)
                  = (IF Len(call.preds) = 1 THEN Len(call.target)
                     ELSE Len(call.preds))
             /\ \A i \in DOMAIN call.result :
                  <<call.result[i]>> =
                      __call__(im,
                          <<IF Len(call.preds) = 1 THEN call.preds[1]
                            ELSE call.preds[i]>>,
                          <<IF Len(call.target) = 1 THEN call.target[1]
                            ELSE call.target[i]>>).value

C6_Witness ==
    /\ pc = "called"
    /\ Len(call.preds) = 2
    /\ Len(call.target) = 3
    /\ SizeMismatch
    /\ im.information_measure = "ab_divergence"

\* C8: applying a measure never changes the stored kind, alpha and beta from
\* the values given at construction, except that a call of a beta_divergence
\* measure sets the stored alpha to 1.0 (kind and beta stay).
C8_CallLeavesSpecUnchanged ==
    pc \in {"constructed", "called"} =>
        /\ Asked(im.information_measure)
        /\ im.beta = args.beta
        /\ IF pc = "called" /\ im.information_measure = "beta_divergence"
           THEN im.alpha = PyFloat(2)
           ELSE im.alpha = args.alpha

C8_Witness ==
    /\ pc = "called"
    /\ im.information_measure = "beta_divergence"
    /\ args.alpha = PyFloat(4)
    /\ im.alpha = PyFloat(2)
    /\ call.alpha_before = PyFloat(2)

\* C9: every call of a constructed beta_divergence measure, the first and
\* the later ones, returns what the AB divergence with alpha = 1.0 and the
\* beta given at construction returns for the same batches, whatever alpha
\* was given at construction.
C9_BetaIsABWithAlphaOne ==
    (pc = "called" /\ Asked("beta_divergence")) =>
        LET ab == _calculate_ab_divergence(
                      [information_measure |-> "ab_divergence",
                       alpha |-> PyFloat(2), beta |-> args.beta],
                      call.preds, call.target)
        IN  exc = ab.exc /\ call.result = ab.value

C9_Witness ==
    /\ pc = "called"
    /\ Asked("beta_divergence")
    /\ args.alpha = PyFloat(4)
    /\ call.alpha_before = PyFloat(2)
    /\ Len(call.result) = 2
    /\ call.result[1].k = "log"

\* the constructed measure is an alpha, AB or beta divergence whose
\* parameters satisfy the constraints of its kind
ValidDivergenceParameters ==
    \/ /\ Asked("alpha_divergence")
       /\ isinstance_float(args.alpha)
       /\ ~ in_int_list(args.alpha, {0, 1})
    \/ /\ Asked("ab_divergence")
       /\ isinstance_float(args.alpha)
       /\ isinstance_float(args.beta)
       /\ ~ in_int_list(args.alpha, {0})
       /\ ~ in_int_list(args.beta, {0})
       /\ ~ in_int_list(float_add(args.alpha, args.beta), {0})
    \/ /\ Asked("beta_divergence")
       /\ isinstance_float(args.beta)
       /\ ~ in_int_list(args.beta, {0, -1})

\* C11: for identical strictly positive distributions the alpha, AB and
\* beta divergences return 0 in every row, whenever the parameters satisfy
\* the constraints of the kind.
C11_DivergenceOfEqualDistributionsIsZero ==
    (pc = "called" /\ call.preds = call.target /\ ValidDivergenceParameters) =>
        /\ exc = "none"
        /\ \A i \in DOMAIN call.result : call.result[i] = Zero

\* C12: the L1, L2 and L-infinity distances are symmetric: on two batches
\* of equal shape, measure(P, Q) equals measure(Q, P) entry by entry.
C12_NormDistancesAreSymmetric ==
    (/\ pc = "called"
     /\ im.information_measure \in {"l1_distance", "l2_distance", "l_infinity_distance"}
     /\ Len(call.preds) = Len(call.target)) =>
        /\ exc = "none"
        /\ Len(call.result) = Len(call.preds)
        /\ call.result = __call__(im, call.target, call.preds).value

C12_Witness ==
    /\ pc = "called"
    /\ im.information_measure = "l_infinity_distance"
    /\ Len(call.preds) = 2
    /\ Len(call.target) = 2
    /\ call.preds[2] # call.target[2]
    /\ call.result[2] # Zero
    /\ call.result[2] = __call__(im, call.target, call.preds).value[2]
    \* the same pair of rows is told apart by the asymmetric KL divergence
    /\ kl_divergence_row(call.preds[2], call.target[2])
         # kl_divergence_row(call.target[2], call.preds[2])

----------------------------------------------------------------------------
(* The distribution of one batch.                                          *)

TokenIds ==
    {special_tokens_map.pad_token_id, special_tokens_map.cls_token_id,
     special_tokens_map.sep_token_id, 4}

\* the token that follows t in the cycle pad, cls, sep, 4
next_token(t) ==
    CASE t = special_tokens_map.pad_token_id -> special_tokens_map.cls_token_id
      [] t = special_tokens_map.cls_token_id -> special_tokens_map.sep_token_id
      [] t = special_tokens_map.sep_token_id -> 4
      [] OTHER -> special_tokens_map.pad_token_id

RECURSIVE shifted(_, _)
shifted(row, k) ==
    IF k = 0 THEN row ELSE shifted([s \in DOMAIN row |-> next_token(row[s])], k - 1)

\* the attention mask of a tokenizer: 1 at every token that is no padding
attention_of(row) ==
    [s \in DOMAIN row |-> IF row[s] = special_tokens_map.pad_token_id THEN 0 ELSE 1]

\* a batch of n rows: the first row is any row, row k + 1 is the first row
\* with every token moved k steps along the cycle
batch_from(row, n) ==
    [input_ids |-> [r \in 1..n |-> shifted(row, r - 1)],
     attention_mask |-> [r \in 1..n |-> attention_of(shifted(row, r - 1))]]

\* _get_batch_distribution(model, batch, temperature, idf, special_tokens_map)
GetBatchDistribution(batch_) ==
    /\ pc = "start"
    /\ batch' = batch_
    /\ out' = _get_batch_distribution(batch_, special_tokens_map)
    /\ pc' = "distributed"
    /\ UNCHANGED <<args, im, exc, call, run, loop>>

GetBatchDistributionAny ==
    /\ pc = "start"
    /\ \E len \in 1..MaxSeqLen, n \in 1..MaxRows :
         \E row \in [1..len -> TokenIds] : GetBatchDistribution(batch_from(row, n))

NextBatch == GetBatchDistributionAny

SpecBatch == Init /\ [][NextBatch]_vars

----------------------------------------------------------------------------
(* _get_batch_distribution pass by pass.                                   *)

\* lines 373-380: seq_len, the empty list and the token mask
EnterLoop(batch_) ==
    /\ pc = "start"
    /\ batch' = batch_
    /\ loop' = [given |-> batch_.input_ids,
                seq_len |-> Len(batch_.input_ids[1]),
                mask_idx |-> 0,
                token_mask |-> _get_token_mask(batch_.input_ids,
                                   special_tokens_map.pad_token_id,
                                   special_tokens_map.sep_token_id,
                                   special_tokens_map.cls_token_id),
                invocations |-> <<>>,
                prob_distribution_batch |-> <<>>]
    /\ pc' = "loop"
    /\ UNCHANGED <<args, im, exc, call, out, run>>

EnterLoopAny ==
    /\ pc = "start"
    /\ \E len \in 1..MaxSeqLen, n \in 1..MaxRows :
         \E row \in [1..len -> TokenIds] : EnterLoop(batch_from(row, n))

\* lines 382-393: the pass for the next mask_idx of range(seq_len)
LoopPass ==
    /\ pc = "loop"
    /\ loop.mask_idx < loop.seq_len
    /\ \E pass \in {loop_body(batch, loop.mask_idx, special_tokens_map)} :
         /\ batch' = pass.batch
         /\ loop' = [loop EXCEPT
                        !.mask_idx = @ + 1,
                        !.invocations = Append(@, pass.invocation),
                        !.prob_distribution_batch = Append(@, pass.prob_distribution)]
    /\ UNCHANGED <<pc, args, im, exc, call, out, run>>

\* lines 395-399: after the last pass
LoopReturn ==
    /\ pc = "loop"
    /\ loop.mask_idx = loop.seq_len
    /\ out' = [token_mask |-> loop.token_mask,
               model_inputs |-> [i \in DOMAIN loop.invocations |->
                                    loop.invocations[i].input_ids],
               distribution |-> loop_result(loop.prob_distribution_batch,
                                            loop.token_mask)]
    /\ pc' = "distributed"
    /\ UNCHANGED <<args, im, exc, call, batch, run, loop>>

NextLoop == EnterLoopAny \/ LoopPass \/ LoopReturn

SpecLoop == Init /\ [][NextLoop]_vars

----------------------------------------------------------------------------
(* Properties of the distribution of one batch.                            *)

IsSpecial(t) ==
    t \in {special_tokens_map.pad_token_id, special_tokens_map.sep_token_id,
           special_tokens_map.cls_token_id}

\* C2 (as claimed): the token mask is true at exactly the positions whose
\* token id is not the pad, sep or cls id, and false at every pad, sep and
\* cls position.
C2_MaskTrueAtContentTokens ==
    pc = "distributed" =>
        \A r \in DOMAIN batch.input_ids :
            \A s \in DOMAIN batch.input_ids[r] :
                out.token_mask[r][s] <=> ~ IsSpecial(batch.input_ids[r][s])

\* the positions of row r the mask lets in
MaskedIn(r) == { s \in DOMAIN out.token_mask[r] : out.token_mask[r][s] }

\* the distribution the model gives row r at position s, with s masked
PositionDistribution(r, s) ==
    model_softmax([batch.input_ids[r] EXCEPT ![s] = special_tokens_map.mask_token_id],
                  batch.attention_mask[r])[s]

\* C10: the distribution of every sentence is the sum of its per-position
\* distributions at the masked-in positions divided by its own number of
\* masked-in positions; a sentence whose mask is all false gets a non-finite
\* (nan) distribution, and every other sentence of the batch gets its finite
\* mean, the one it gets in a batch of its own.
C10_MeanOverOwnMaskedPositions ==
    pc = "distributed" =>
        \A r \in DOMAIN batch.input_ids :
            IF MaskedIn(r) = {}
            THEN \A v \in DOMAIN out.distribution[r] : out.distribution[r][v] = nan
            ELSE /\ \A v \in DOMAIN out.distribution[r] :
                      /\ is_finite(out.distribution[r][v])
                      /\ rmul(out.distribution[r][v], <<Cardinality(MaskedIn(r)), 1>>)
                           = rsum([s \in DOMAIN batch.input_ids[r] |->
                                     IF s \in MaskedIn(r)
                                     THEN PositionDistribution(r, s)[v]
                                     ELSE <<0, 1>>])
                 /\ out.distribution[r]
                      = _get_batch_distribution(
                            [input_ids |-> <<batch.input_ids[r]>>,
                             attention_mask |-> <<batch.attention_mask[r]>>],
                            special_tokens_map).distribution[1]

C10_Witness ==
    /\ pc = "distributed"
    /\ Len(batch.input_ids) = 2
    /\ MaskedIn(1) = {}
    /\ \A v \in DOMAIN out.distribution[1] : out.distribution[1][v] = nan
    /\ Cardinality(MaskedIn(2)) = 2
    /\ \A v \in DOMAIN out.distribution[2] : is_finite(out.distribution[2][v])

----------------------------------------------------------------------------
(* The scoring pipeline: infolm, lines 589-611.                            *)

\* sentences: sequences of content tokens
Sentences == << <<>>, <<4>>, <<5, 4>> >>

\* the corpus of n sentences that starts at the s-th sentence
corpus_of(n, s) == [i \in 1..n |-> Sentences[((s + i - 2) % Len(Sentences)) + 1]]

Corpora == { corpus_of(n, s) : n \in 1..MaxSentences, s \in 1..Len(Sentences) }

\* lines 594-610: tokenization, the two dataloaders and _infolm_compute, for
\* a measure that line 590 constructed
Infolm(preds, target, max_length, batch_size) ==
    /\ pc = "constructed"
    /\ \E r \in { _infolm_compute(im,
                      _get_dataloader(_infolm_update(preds, max_length), batch_size),
                      _get_dataloader(_infolm_update(target, max_length), batch_size),
                      special_tokens_map) } :
         /\ run' = [preds |-> preds, target |-> target, max_length |-> max_length,
                    batch_size |-> batch_size, score |-> r.value]
         /\ exc' = r.exc
    /\ im' = self_after_call(im)
    /\ pc' = "computed"
    /\ UNCHANGED <<args, call, batch, out, loop>>

\* the measures of the pipeline: every kind, with integer parameters
PipelineArgs ==
    { t \in MeasureNames \X {None, PyFloat(4)} \X {None, PyFloat(2)} :
        LET m == from_str(t[1]).member IN
        \/ m = "ab_divergence" /\ t[2] # None /\ t[3] # None
        \/ m = "beta_divergence" /\ t[2] = None /\ t[3] # None
        \/ m \in {"alpha_divergence", "renyi_divergence"}
              /\ t[2] # None /\ t[3] = None
        \/ m \notin {"ab_divergence", "beta_divergence", "alpha_divergence",
                     "renyi_divergence"}
              /\ t[2] = None /\ t[3] = None }

ConstructPipeline ==
    /\ pc = "start"
    /\ \E t \in PipelineArgs : Construct(t[1], t[2], t[3])

InfolmAny ==
    /\ pc = "constructed"
    /\ \E preds \in Corpora, target \in Corpora, batch_size \in 1..MaxSentences :
         Infolm(preds, target, MaxSeqLen + 1, batch_size)

NextPipeline == ConstructPipeline \/ InfolmAny

SpecPipeline == Init /\ [][NextPipeline]_vars

\* the distribution of one sentence, computed in a batch of its own
SentenceDistribution(sentence) ==
    _get_batch_distribution(
        [input_ids |-> <<tokenizer(sentence, run.max_length).input_ids>>,
         attention_mask |-> <<tokenizer(sentence, run.max_length).attention_mask>>],
        special_tokens_map).distribution[1]

----------------------------------------------------------------------------
(* Properties of the passes of _get_batch_distribution.                    *)

\* C13: for a batch of sequences of length L the model is invoked exactly L
\* times, for the positions 0..L-1 in increasing order; the input of
\* invocation i is the batch's original input_ids with the mask token in
\* column i of every row and nowhere else changed, the distribution kept
\* from invocation i is the model's distribution at position i, and the
\* batch's own input_ids are unchanged when the function returns.
C13_OneInvocationPerPosition ==
    pc \in {"loop", "distributed"} =>
        /\ Len(loop.invocations) = loop.mask_idx
        /\ Len(loop.prob_distribution_batch) = loop.mask_idx
        /\ loop.mask_idx <= loop.seq_len
        /\ \A i \in DOMAIN loop.invocations :
              \A r \in DOMAIN loop.given :
                 /\ \A s \in DOMAIN loop.given[r] :
                       loop.invocations[i].input_ids[r][s] =
                           IF s = i THEN special_tokens_map.mask_token_id
                           ELSE loop.given[r][s]
                 /\ loop.prob_distribution_batch[i][r] =
                       model_softmax(loop.invocations[i].input_ids[r],
                                     loop.invocations[i].attention_mask[r])[i]
        /\ pc = "distributed" =>
              /\ Len(loop.invocations) = Len(loop.given[1])
              /\ batch.input_ids = loop.given

C13_Witness ==
    /\ pc = "distributed"
    /\ Len(loop.given) = 2
    /\ Len(loop.given[1]) = 3
    /\ Len(loop.invocations) = 3
    /\ loop.invocations[3].input_ids[1][1] = loop.given[1][1]
    /\ loop.invocations[3].input_ids[1][1] # special_tokens_map.mask_token_id
    /\ loop.invocations[3].input_ids[2][3] = special_tokens_map.mask_token_id
    /\ batch.input_ids = loop.given

====
